---- MODULE Spec2Model ----
(***************************************************************************)
(* A model of the terminal tic-tac-toe game: the 3x3 Grid with its         *)
(* occupancy masks and bitmask winner check (board.rs), the exhaustive     *)
(* minimax search (minimax.rs) and the turn loop with its line-based human *)
(* input (game.rs).                                                        *)
(*                                                                         *)
(* Six specifications share the variables:                                 *)
(*   Spec        play_game started on Board::new()                         *)
(*   FairSpec    Spec where every step but the reading of a line is fair   *)
(*   SpecBoard   one call of play_move / get_winner on an arbitrary grid   *)
(*   SpecSearch  one call of minimax on an arbitrary grid                  *)
(*   SpecRecurrence  SpecSearch on the boards of few free cells            *)
(*   SpecParse   one call of parse_move on a short string                  *)
(***************************************************************************)
EXTENDS Integers, Sequences, FiniteSets, TLC

(***************************************************************************)
(* Bounds of the model.                                                    *)
(***************************************************************************)
\* lines read within one human turn
MaxLines == 2
\* largest coordinate handed to play_move by the board harness
MaxCoord == 3
\* largest number of free cells of a grid handed to minimax by the search harness
MaxFree == 8
\* pieces a line handed to parse_move is put together from
MaxPieces == 5
\* depth of a search called with a depth of its own
MaxDepth == 2
\* free cells of a board whose search is compared with the searches one
\* move away
MaxFreeRecurrence == 7

(***************************************************************************)
(* board.rs: constants, Player, Grid.                                      *)
(***************************************************************************)
ROWS == 3
COLUMNS == 3
BOARD_SIZE == ROWS * COLUMNS

\* Option<Player>: None, Some(Human), Some(Computer)
None == "None"
Human == "Human"
Computer == "Computer"
Player == {Human, Computer}

\* mutant of get_opponent: the player itself
get_opponent_same(p) == p

get_opponent(p) == IF p = Human THEN Computer ELSE Human

\* mutant of winnings: the last pattern misses the bit of cell (0,0)
winnings_missing_bit == <<7, 56, 448, 73, 146, 292, 84, 272>>

\* the eight win patterns, the binary literals of Grid::new() in decimal:
\* 0b111, 0b111000, 0b111000000, 0b1001001, 0b10010010, 0b100100100,
\* 0b001010100, 0b100010001
winnings == <<7, 56, 448, 73, 146, 292, 84, 273>>

\* Grid::new(): all cells None, both masks 0.  Cell idx of the array v is
\* v[idx + 1] (sequences are 1-based).
NewGrid ==
  [v |-> <<None, None, None, None, None, None, None, None, None>>,
   computer_hash |-> 0, human_hash |-> 0]

get_index(row, column) == row * ROWS + column

get_tuple_index(index) == <<index \div ROWS, index % ROWS>>

\* Index<(usize, usize)> for Grid: the cell at (row, col)
CellAt(g, row, col) == g.v[get_index(row, col) + 1]

\* bit i of the non-negative integer n
Bit(n, i) == (n \div (2 ^ i)) % 2

\* a & b on the 9 bits a mask can hold
BitAnd(a, b) ==
  LET RECURSIVE go(_)
      go(i) == IF i = BOARD_SIZE THEN 0
               ELSE Bit(a, i) * Bit(b, i) * (2 ^ i) + go(i + 1)
  IN go(0)

\* h | (1 << idx)
BitOrShl(h, idx) == IF Bit(h, idx) = 1 THEN h ELSE h + 2 ^ idx

update_hash(g, player, i, j) ==
  LET idx == get_index(i, j) IN
  IF player = Computer
    THEN [g EXCEPT !.computer_hash = BitOrShl(g.computer_hash, idx)]
    ELSE [g EXCEPT !.human_hash = BitOrShl(g.human_hash, idx)]

\* the (row, col) of every index of the array, in the order of the array
AllSpots ==
  <<get_tuple_index(0), get_tuple_index(1), get_tuple_index(2), get_tuple_index(3),
    get_tuple_index(4), get_tuple_index(5), get_tuple_index(6), get_tuple_index(7),
    get_tuple_index(8)>>

\* mutant of iter_free_spots: the filter keeps the owned cells
iter_free_spots_inverted(g) ==
  SelectSeq(AllSpots, LAMBDA spot : g.v[get_index(spot[1], spot[2]) + 1] # None)

\* the free cells as (row, col) pairs, in the order of the array
iter_free_spots(g) ==
  SelectSeq(AllSpots, LAMBDA spot : g.v[get_index(spot[1], spot[2]) + 1] = None)

\* usize as isize: values above isize::MAX wrap to negative.  The widths are
\* those of a 32-bit target; the coordinates and scores of the model stay far
\* below either width, and isize::MIN and isize::MAX are only compared.
isize_MAX == 2147483647
isize_MIN == -2147483647 - 1
as_isize(n) == IF n <= isize_MAX THEN n ELSE n - isize_MAX - isize_MAX - 2

\* mutant of idx_in_range: the upper bounds are inclusive
idx_in_range_inclusive(row, col) ==
  0 <= row /\ row <= ROWS /\ 0 <= col /\ col <= COLUMNS

idx_in_range(row, col) == 0 <= row /\ row < ROWS /\ 0 <= col /\ col < COLUMNS

\* winnings.into_iter().any(|&x| x == x & mask)
any_winning(mask) == \E k \in 1..Len(winnings) : winnings[k] = BitAnd(winnings[k], mask)

\* the bits set in a mask, as the set of their positions
BitsOf(mask) == {idx \in 0..(BOARD_SIZE - 1) : Bit(mask, idx) = 1}

\* any_winning tabulated over the 9-bit masks, each mask given by its bits
WinningMasks == {BitsOf(mask) : mask \in {m \in 0..(2 ^ BOARD_SIZE - 1) : any_winning(m)}}

\* the mask get_winner_fast builds for a player from the cells, given by its
\* bits: every cell the player owns ORs 1 << idx into a mask that starts at 0
MaskOfCells(v, p) == {idx \in 0..(BOARD_SIZE - 1) : v[idx + 1] = p}

\* mutant of get_winner_fast: the stored masks are tested, not masks
\* recomputed from the cells
get_winner_fast_stored_hash(g) ==
  IF BitsOf(g.human_hash) \in WinningMasks THEN Human
  ELSE IF BitsOf(g.computer_hash) \in WinningMasks THEN Computer
  ELSE None

get_winner_fast(g) ==
  IF MaskOfCells(g.v, Human) \in WinningMasks THEN Human
  ELSE IF MaskOfCells(g.v, Computer) \in WinningMasks THEN Computer
  ELSE None

(***************************************************************************)
(* board.rs: Board.  A Move is [row, col, player]; a Result is ok or not.  *)
(***************************************************************************)
Move(row, col, player) == [row |-> row, col |-> col, player |-> player]

\* mutant of play_move: a move onto an owned cell is rejected
play_move_rejecting_owned(b, cur_move) ==
  IF ~idx_in_range(as_isize(cur_move.row), as_isize(cur_move.col))
       \/ b.v[get_index(cur_move.row, cur_move.col) + 1] # None
    THEN [ok |-> FALSE, board |-> b]
    ELSE [ok |-> TRUE,
          board |-> update_hash(
                      [b EXCEPT !.v[get_index(cur_move.row, cur_move.col) + 1] = cur_move.player],
                      cur_move.player, cur_move.row, cur_move.col)]

\* returns the Result and the board after the call
play_move(b, cur_move) ==
  IF ~idx_in_range(as_isize(cur_move.row), as_isize(cur_move.col))
    THEN [ok |-> FALSE, board |-> b]
    ELSE [ok |-> TRUE,
          board |-> update_hash(
                      [b EXCEPT !.v[get_index(cur_move.row, cur_move.col) + 1] = cur_move.player],
                      cur_move.player, cur_move.row, cur_move.col)]

count_free_spots(b) == Len(iter_free_spots(b))

is_game_over(b) == \A i \in 1..BOARD_SIZE : b.v[i] # None

is_empty(b) == \A i \in 1..BOARD_SIZE : b.v[i] = None

get_winner(b) == get_winner_fast(b)

(***************************************************************************)
(* minimax.rs.  Option<(usize, usize)> is <<>> for None and <<row, col>>   *)
(* for Some((row, col)); the result is <<best_move, score>>.               *)
(***************************************************************************)
NoMove == <<>>

\* mutant of terminal_score: the signs are swapped
terminal_score_swapped(winner) ==
  IF winner = Computer THEN -1 ELSE IF winner = Human THEN 1 ELSE 0

\* mutant of terminal_score: a win of either player scores 1
terminal_score_unsigned(winner) == IF winner # None THEN 1 ELSE 0

\* the score of a terminal call
terminal_score(winner) ==
  IF winner = Computer THEN 1 ELSE IF winner = Human THEN -1 ELSE 0

\* mutant of initial_score: the loop starts from the score of a draw
initial_score_zero(player) == 0

\* the score the loop starts from
initial_score(player) == IF player = Computer THEN isize_MIN ELSE isize_MAX

\* mutant of improves: a tie replaces the best move too
improves_or_ties(player, score, current_score) ==
  IF player = Computer THEN score <= current_score ELSE current_score <= score

\* the test that replaces the best move seen so far
improves(player, score, current_score) ==
  IF player = Computer THEN score < current_score ELSE current_score < score

\* mutant of minimax_loop: a better spot replaces best_move but the score it
\* is compared with stays the initial one
RECURSIVE minimax_loop_stale_score(_, _, _, _, _, _)
minimax_loop_stale_score(player, spots, searched, k, best_move, score) ==
  IF k > Len(searched) THEN <<best_move, score>>
  ELSE IF improves(player, score, searched[k][2])
         THEN minimax_loop_stale_score(player, spots, searched, k + 1, spots[k], score)
         ELSE minimax_loop_stale_score(player, spots, searched, k + 1, best_move, score)

\* The for loop over the free spots, from pass k on.  best_move and score
\* are the two variables it updates; searched[k] is the result of the
\* recursive call of pass k, whose score is current_score.
RECURSIVE minimax_loop(_, _, _, _, _, _)
minimax_loop(player, spots, searched, k, best_move, score) ==
  IF k > Len(searched) THEN <<best_move, score>>
  ELSE IF improves(player, score, searched[k][2])
         THEN minimax_loop(player, spots, searched, k + 1, spots[k], searched[k][2])
         ELSE minimax_loop(player, spots, searched, k + 1, best_move, score)

\* the values a Board can hold
Boards == [v : [1..BOARD_SIZE -> {None, Human, Computer}], computer_hash : Nat, human_hash : Nat]

\* the clone of the board on which the player has played (row, col)
cloned_board[board \in Boards, row \in Nat, col \in Nat, player \in Player] ==
  play_move(board, Move(row, col, player)).board

\* minimax as a function of its arguments.  The recursive calls of the loop,
\* one for each free spot in order, search the cloned board on which the
\* player has taken the spot; a call depends on its spot alone, not on the
\* passes before it, so the calls are made first (searched is bound to their
\* results) and the loop then runs over them.
minimax_of[board \in Boards, depth \in Nat, player \in Player] ==
  IF depth = 0 \/ get_winner(board) # None
    THEN <<NoMove, terminal_score(get_winner(board))>>
    ELSE CHOOSE found \in
           {minimax_loop(player, pass[1], pass[2], 1, NoMove, initial_score(player)) :
              pass \in
                {<<spots,
                   SubSeq([k \in 1..Len(spots) |->
                             minimax_of[cloned_board[board, spots[k][1], spots[k][2], player],
                                        depth - 1, get_opponent(player)]],
                          1, Len(spots))>> :
                 spots \in {iter_free_spots(board)}}} : TRUE

minimax(board, depth, player) == minimax_of[board, depth, player]

(***************************************************************************)
(* game.rs: parse_move.  A string is a sequence of one-character strings.  *)
(***************************************************************************)
\* char::is_whitespace on the characters of the model
IsWhitespace(c) == c \in {" ", "\t", "\n", "\r"}

RECURSIVE trim_start(_)
trim_start(s) ==
  IF s # <<>> /\ IsWhitespace(Head(s)) THEN trim_start(Tail(s)) ELSE s

RECURSIVE trim_end(_)
trim_end(s) ==
  IF s # <<>> /\ IsWhitespace(s[Len(s)]) THEN trim_end(SubSeq(s, 1, Len(s) - 1)) ELSE s

\* str::trim
trim(s) == trim_end(trim_start(s))

\* str::split(','): the pieces between the commas, empty pieces included
RECURSIVE split_from(_, _)
split_from(s, piece) ==
  IF s = <<>> THEN <<piece>>
  ELSE IF Head(s) = "," THEN <<piece>> \o split_from(Tail(s), <<>>)
  ELSE split_from(Tail(s), Append(piece, Head(s)))

split(s) == split_from(s, <<>>)

Digits == <<"0", "1", "2", "3", "4", "5", "6", "7", "8", "9">>

IsDigit(c) == \E d \in 1..Len(Digits) : Digits[d] = c

DigitValue(c) == (CHOOSE d \in 1..Len(Digits) : Digits[d] = c) - 1

\* usize::MAX of the 32-bit target, 2^32 - 1, by its decimal digits (it is
\* more than the integers of the model hold)
usize_MAX_digits == <<4, 2, 9, 4, 9, 6, 7, 2, 9, 5>>

\* the digits without their leading zeros
RECURSIVE significant(_)
significant(ds) ==
  IF ds # <<>> /\ Head(ds) = "0" THEN significant(Tail(ds)) ELSE ds

\* whether the digits a, as long as the digits b, are a greater number
RECURSIVE greater_digits(_, _)
greater_digits(a, b) ==
  IF a = <<>> THEN FALSE
  ELSE IF DigitValue(Head(a)) # Head(b) THEN DigitValue(Head(a)) > Head(b)
  ELSE greater_digits(Tail(a), Tail(b))

\* the checked_mul and checked_add of from_str_radix fail: the number is
\* greater than usize::MAX
overflows_usize(ds) ==
  \/ Len(significant(ds)) > Len(usize_MAX_digits)
  \/ /\ Len(significant(ds)) = Len(usize_MAX_digits)
     /\ greater_digits(significant(ds), usize_MAX_digits)

\* str::parse::<usize>: an optional '+' and then one or more decimal digits
\* of a number that fits usize; anything else is a ParseIntError.
parse_usize(n) ==
  LET digits == IF n # <<>> /\ Head(n) = "+" THEN Tail(n) ELSE n
      RECURSIVE value(_, _)
      value(ds, acc) == IF ds = <<>> THEN acc
                        ELSE value(Tail(ds), acc * 10 + DigitValue(Head(ds)))
  IN IF digits = <<>> \/ \E i \in 1..Len(digits) : ~IsDigit(digits[i])
       THEN [ok |-> FALSE]
     ELSE IF overflows_usize(digits)
       THEN [ok |-> FALSE]
       ELSE [ok |-> TRUE, value |-> value(digits, 0)]

\* mutant of parse_move: two or more numbers are accepted
parse_move_at_least_two(parsed_args) ==
  LET m == [i \in 1..Len(split(trim(parsed_args))) |->
              parse_usize(split(trim(parsed_args))[i])]
  IN IF \E i \in 1..Len(m) : ~m[i].ok
       THEN [ok |-> FALSE, err |-> "ParseIntError"]
       ELSE IF Len(m) >= 2
              THEN [ok |-> TRUE, row |-> m[1].value, col |-> m[2].value]
              ELSE [ok |-> FALSE, err |-> "too many args"]

\* Ok((row, col)) or Err: collect() keeps the first ParseIntError
parse_move(parsed_args) ==
  LET m == [i \in 1..Len(split(trim(parsed_args))) |->
              parse_usize(split(trim(parsed_args))[i])]
  IN IF \E i \in 1..Len(m) : ~m[i].ok
       THEN [ok |-> FALSE, err |-> "ParseIntError"]
       ELSE IF Len(m) = 2
              THEN [ok |-> TRUE, row |-> m[1].value, col |-> m[2].value]
              ELSE [ok |-> FALSE, err |-> "too many args"]

(***************************************************************************)
(* game.rs: the turn handlers as functions of the board.                   *)
(***************************************************************************)
\* One pass of the loop of human_turn: read_line appends the line to
\* required_move, the whole buffer is parsed and, when it parses, played.
\* done says whether the loop breaks, (row, col) is the move then played.
human_turn_read(board, required_move, line) ==
  LET buffer == required_move \o line
      parsed == parse_move(buffer)
      played == play_move(board, Move(parsed.row, parsed.col, Human))
  IN IF parsed.ok /\ played.ok
       THEN [done |-> TRUE, board |-> played.board, required_move |-> buffer,
             row |-> parsed.row, col |-> parsed.col]
       ELSE [done |-> FALSE, board |-> board, required_move |-> buffer]

\* The outcomes of computer_turn: the board it leaves, the result of the
\* search when it searched (found is <<suggested_move, score>>), and whether
\* an unwrap panicked.
computer_turn(board) ==
  IF is_game_over(board)
    THEN {[branch |-> "over", panic |-> FALSE, board |-> board,
           search |-> <<NoMove, 0>>]}
  ELSE IF is_empty(board)
    THEN {[branch |-> "random", panic |-> FALSE,
           board |-> play_move(board, Move(spot[1], spot[2], Computer)).board,
           search |-> <<NoMove, 0>>] :
          spot \in {iter_free_spots(board)[i] : i \in 1..count_free_spots(board)}}
  ELSE {IF found[1] = NoMove
          THEN [branch |-> "minimax", panic |-> TRUE, board |-> board, search |-> found]
          ELSE [branch |-> "minimax",
                panic |-> ~play_move(board, Move(found[1][1], found[1][2], Computer)).ok,
                board |-> play_move(board, Move(found[1][1], found[1][2], Computer)).board,
                search |-> found] :
        found \in {minimax(board, count_free_spots(board), Computer)}}

\* mutant of play_game_check: the full board is tested before the winner
play_game_check_tie_first(board) ==
  IF is_game_over(board) THEN "tie"
  ELSE IF get_winner(board) # None THEN "wins"
  ELSE "turn"

\* mutant of play_game_check: the full board is not tested
play_game_check_no_tie(board) ==
  IF get_winner(board) # None THEN "wins" ELSE "turn"

\* mutant of play_game_check: the winner is not tested
play_game_check_no_winner(board) ==
  IF is_game_over(board) THEN "tie" ELSE "turn"

\* what the top of the loop of play_game decides
play_game_check(board) ==
  IF get_winner(board) # None THEN "wins"
  ELSE IF is_game_over(board) THEN "tie"
  ELSE "turn"

(***************************************************************************)
(* State.                                                                  *)
(***************************************************************************)
VARIABLES
  board,           \* the Board: cells v and the two occupancy masks
  current_player,  \* play_game: whose turn it is
  winner,          \* play_game: Option<Player>
  pc,              \* where control is: "loop", "human_turn", "computer_turn",
                   \* "done", "panic"; "call" and "returned" in the harnesses
  announced,       \* what play_game has printed: "none", "wins", "tie"
  required_move,   \* human_turn: the line buffer
  search,          \* computer_turn: the last result of minimax
  overwrote,       \* history: an accepted human move hit an occupied cell
  computer_turns,  \* history: completed calls of computer_turn
  ret              \* harness: the call made and what it returned

vars == <<board, current_player, winner, pc, announced, required_move, search,
          overwrote, computer_turns, ret>>

NoCall == [op |-> "none"]

(***************************************************************************)
(* play_game(Board::new()), as main calls it.                              *)
(***************************************************************************)
\* mutant of Init: Computer is the first player
Init_computer_first ==
  /\ board = NewGrid
  /\ current_player = Computer
  /\ winner = None
  /\ pc = "loop"
  /\ announced = "none"
  /\ required_move = <<>>
  /\ search = <<NoMove, 0>>
  /\ overwrote = FALSE
  /\ computer_turns = 0
  /\ ret = NoCall

Init ==
  /\ board = NewGrid
  /\ current_player = Human
  /\ winner = None
  /\ pc = "loop"
  /\ announced = "none"
  /\ required_move = <<>>
  /\ search = <<NoMove, 0>>
  /\ overwrote = FALSE
  /\ computer_turns = 0
  /\ ret = NoCall

\* the lines the human may type: every in-range move, a malformed line, an
\* out-of-range move and an empty line
MoveLine(row, col) == <<Digits[row + 1], ",", Digits[col + 1], "\n">>

Lines ==
  {MoveLine(row, col) : row \in 0..(ROWS - 1), col \in 0..(COLUMNS - 1)}
    \cup {<<"a", ",", "b", "\n">>, MoveLine(5, 5), <<"\n">>}

\* the lines read so far within this human turn
LinesRead(s) == Cardinality({i \in 1..Len(s) : s[i] = "\n"})

\* top of the loop: a winner exists
AnnounceWinner ==
  /\ pc = "loop"
  /\ play_game_check(board) = "wins"
  /\ winner' = get_winner(board)
  /\ announced' = "wins"
  /\ pc' = "done"
  /\ UNCHANGED <<board, current_player, required_move, search, overwrote,
                 computer_turns, ret>>

\* top of the loop: no winner and the board is full
AnnounceTie ==
  /\ pc = "loop"
  /\ play_game_check(board) = "tie"
  /\ announced' = "tie"
  /\ pc' = "done"
  /\ UNCHANGED <<board, current_player, winner, required_move, search, overwrote,
                 computer_turns, ret>>

\* top of the loop: the turn handler of the current player is called;
\* human_turn starts with an empty buffer
Dispatch ==
  /\ pc = "loop"
  /\ play_game_check(board) = "turn"
  /\ pc' = IF current_player = Human THEN "human_turn" ELSE "computer_turn"
  /\ required_move' = <<>>
  /\ UNCHANGED <<board, current_player, winner, announced, search, overwrote,
                 computer_turns, ret>>

\* human_turn reads one line; an accepted move ends the turn and play_game
\* hands the turn to the opponent
HumanReadLine(line) ==
  /\ pc = "human_turn"
  /\ LinesRead(required_move) < MaxLines
  /\ LET step == human_turn_read(board, required_move, line) IN
       IF step.done
         THEN /\ board' = step.board
              /\ overwrote' = (overwrote
                                \/ board.v[get_index(step.row, step.col) + 1] # None)
              /\ required_move' = <<>>
              /\ current_player' = get_opponent(current_player)
              /\ pc' = "loop"
         ELSE /\ required_move' = step.required_move
              /\ UNCHANGED <<board, overwrote, current_player, pc>>
  /\ UNCHANGED <<winner, announced, search, computer_turns, ret>>

\* computer_turn, and play_game hands the turn to the opponent
ComputerTurn ==
  /\ pc = "computer_turn"
  /\ \E out \in computer_turn(board) :
       /\ board' = out.board
       /\ search' = out.search
       /\ pc' = IF out.panic THEN "panic" ELSE "loop"
       /\ current_player' = IF out.panic THEN current_player
                            ELSE get_opponent(current_player)
       /\ computer_turns' = IF out.panic THEN computer_turns ELSE computer_turns + 1
  /\ UNCHANGED <<winner, announced, required_move, overwrote, ret>>

Next ==
  \/ AnnounceWinner
  \/ AnnounceTie
  \/ Dispatch
  \/ \E line \in Lines : HumanReadLine(line)
  \/ ComputerTurn

Spec == Init /\ [][Next]_vars

\* play_game runs on its own thread of control: whenever the loop or
\* computer_turn can take its next step it does.  The human's lines come from
\* stdin, on which nothing is assumed.
FairSpec ==
  /\ Spec
  /\ WF_vars(AnnounceWinner)
  /\ WF_vars(AnnounceTie)
  /\ WF_vars(Dispatch)
  /\ WF_vars(ComputerTurn)

(***************************************************************************)
(* Harnesses: one call of an operation of Board, or of minimax, on a grid  *)
(* that holds any assignment of None, Human and Computer to its nine       *)
(* cells, built by play_move calls on distinct cells of a new board (so    *)
(* the masks hold exactly the bits of the owned cells).                    *)
(***************************************************************************)
\* the mask holding exactly the bits of the cells owned by p
HashOfCells(v, p) ==
  LET RECURSIVE sum(_)
      sum(idx) == IF idx = BOARD_SIZE THEN 0
                  ELSE (IF v[idx + 1] = p THEN 2 ^ idx ELSE 0) + sum(idx + 1)
  IN sum(0)

Cells == {None, Human, Computer}

Grids ==
  {[v |-> <<c0, c1, c2, c3, c4, c5, c6, c7, c8>>,
    computer_hash |-> HashOfCells(<<c0, c1, c2, c3, c4, c5, c6, c7, c8>>, Computer),
    human_hash |-> HashOfCells(<<c0, c1, c2, c3, c4, c5, c6, c7, c8>>, Human)] :
   c0 \in Cells, c1 \in Cells, c2 \in Cells, c3 \in Cells, c4 \in Cells,
   c5 \in Cells, c6 \in Cells, c7 \in Cells, c8 \in Cells}

InitHarness ==
  /\ board \in Grids
  /\ current_player = Human
  /\ winner = None
  /\ pc = "call"
  /\ announced = "none"
  /\ required_move = <<>>
  /\ search = <<NoMove, 0>>
  /\ overwrote = FALSE
  /\ computer_turns = 0
  /\ ret = NoCall

Coords == 0..MaxCoord

CallPlayMove(row, col, player) ==
  /\ pc = "call"
  /\ LET played == play_move(board, Move(row, col, player)) IN
       /\ board' = played.board
       /\ ret' = [op |-> "play_move", row |-> row, col |-> col, player |-> player,
                  ok |-> played.ok]
  /\ pc' = "returned"
  /\ UNCHANGED <<current_player, winner, announced, required_move, search, overwrote,
                 computer_turns>>

CallGetWinner ==
  /\ pc = "call"
  /\ ret' = [op |-> "get_winner", winner |-> get_winner(board)]
  /\ pc' = "returned"
  /\ UNCHANGED <<board, current_player, winner, announced, required_move, search,
                 overwrote, computer_turns>>

NextBoard ==
  \/ \E row \in Coords, col \in Coords, player \in Player : CallPlayMove(row, col, player)
  \/ CallGetWinner

SpecBoard == InitHarness /\ [][NextBoard]_vars

\* minimax(board, board.count_free_spots(), player), as computer_turn calls it
CallMinimax(player) ==
  /\ pc = "call"
  /\ count_free_spots(board) <= MaxFree
  /\ LET found == minimax(board, count_free_spots(board), player) IN
       ret' = [op |-> "minimax", player |-> player, best_move |-> found[1],
               score |-> found[2]]
  /\ pc' = "returned"
  /\ UNCHANGED <<board, current_player, winner, announced, required_move, search,
                 overwrote, computer_turns>>

\* minimax(board, depth, player) with a depth that need not be the number
\* of free cells, as the recursive calls and the tests of minimax.rs call it
CallMinimaxAtDepth(depth, player) ==
  /\ pc = "call"
  /\ LET found == minimax(board, depth, player) IN
       ret' = [op |-> "minimax_at", depth |-> depth, player |-> player,
               best_move |-> found[1], score |-> found[2]]
  /\ pc' = "returned"
  /\ UNCHANGED <<board, current_player, winner, announced, required_move, search,
                 overwrote, computer_turns>>

NextSearch ==
  \/ \E player \in Player : CallMinimax(player)
  \/ \E depth \in 0..MaxDepth, player \in Player : CallMinimaxAtDepth(depth, player)

SpecSearch == InitHarness /\ [][NextSearch]_vars

\* The strings handed to parse_move: up to MaxPieces pieces put end to end.
\* The pieces are digits, a comma, a letter, whitespace, the signs, and the
\* digits of usize::MAX + 1.
Pieces ==
  {<<"1">>, <<"2", "0">>, <<",">>, <<"a">>, <<" ">>, <<"\n">>, <<"+">>, <<"-">>,
   <<"4", "2", "9", "4", "9", "6", "7", "2", "9", "6">>}

RECURSIVE Concat(_)
Concat(pieces) == IF pieces = <<>> THEN <<>> ELSE Head(pieces) \o Concat(Tail(pieces))

\* the strings of up to n pieces
ParseInputs(n) == {Concat(pieces) : pieces \in UNION {[1..k -> Pieces] : k \in 0..n}}

\* human_turn holds a string in required_move and is about to parse it
InitParse ==
  /\ board = NewGrid
  /\ current_player = Human
  /\ winner = None
  /\ pc = "call"
  /\ announced = "none"
  /\ required_move \in ParseInputs(MaxPieces)
  /\ search = <<NoMove, 0>>
  /\ overwrote = FALSE
  /\ computer_turns = 0
  /\ ret = NoCall

\* parse_move(&required_move), as human_turn calls it
CallParseMove ==
  /\ pc = "call"
  /\ ret' = [op |-> "parse_move", result |-> parse_move(required_move)]
  /\ pc' = "returned"
  /\ UNCHANGED <<board, current_player, winner, announced, required_move, search,
                 overwrote, computer_turns>>

NextParse == CallParseMove

SpecParse == InitParse /\ [][NextParse]_vars

\* CallMinimax on the boards of at most MaxFreeRecurrence free cells
CallMinimaxShallow(player) ==
  /\ count_free_spots(board) <= MaxFreeRecurrence
  /\ CallMinimax(player)

NextRecurrence == \E player \in Player : CallMinimaxShallow(player)

SpecRecurrence == InitHarness /\ [][NextRecurrence]_vars

(***************************************************************************)
(* The lines of the grid, from its geometry: three rows, three columns and *)
(* the two diagonals, each the set of its (row, col) cells.                *)
(***************************************************************************)
GridLines ==
  {{<<row, col>> : col \in 0..(COLUMNS - 1)} : row \in 0..(ROWS - 1)}
    \cup {{<<row, col>> : row \in 0..(ROWS - 1)} : col \in 0..(COLUMNS - 1)}
    \cup {{<<i, i>> : i \in 0..(ROWS - 1)}, {<<i, ROWS - 1 - i>> : i \in 0..(ROWS - 1)}}

OwnsLine(b, p, line) == \A rc \in line : CellAt(b, rc[1], rc[2]) = p

OwnsSomeLine(b, p) == \E line \in GridLines : OwnsLine(b, p, line)

\* the cells a player owns
CellsOf(b, p) ==
  {rc \in (0..(ROWS - 1)) \X (0..(COLUMNS - 1)) : CellAt(b, rc[1], rc[2]) = p}

InRange(row, col) == row \in 0..(ROWS - 1) /\ col \in 0..(COLUMNS - 1)

(***************************************************************************)
(* Claims.                                                                 *)
(***************************************************************************)

\* C1: in a game of play_game in which every accepted human move targeted an
\* empty cell, Human is never announced as the winner, and every score minimax
\* has returned to computer_turn is >= 0.
C1_ComputerNeverLoses ==
  ~overwrote => /\ (announced = "wins" => winner # Human)
                /\ search[2] >= 0

\* C1 witness: such a game has ended with Computer announced as the winner.
C1_Witness ==
  pc = "done" /\ ~overwrote /\ announced = "wins" /\ winner = Computer /\ search[2] = 1

\* C2: get_winner returns Some(Human) if Human owns all three cells of some
\* line, otherwise Some(Computer) if Computer does, otherwise None, whatever
\* the nine cells hold.
C2_GetWinnerByLines ==
  ret.op = "get_winner" =>
    ret.winner = (IF OwnsSomeLine(board, Human) THEN Human
                  ELSE IF OwnsSomeLine(board, Computer) THEN Computer
                  ELSE None)

\* C2 witness: a grid holding Computer on exactly the anti-diagonal yielded
\* Some(Computer).
C2_Witness ==
  /\ ret.op = "get_winner"
  /\ ret.winner = Computer
  /\ CellsOf(board, Computer) = {<<0, 2>>, <<1, 1>>, <<2, 0>>}
  /\ CellsOf(board, Human) = {}

\* C3: within one human turn, once a line has been rejected, reading a
\* well-formed in-range line "row,col" ends the turn with Human on (row, col).
C3_RejectedInputRecoverable ==
  [][\A row \in 0..(ROWS - 1), col \in 0..(COLUMNS - 1) :
       (pc = "human_turn" /\ required_move # <<>> /\ HumanReadLine(MoveLine(row, col)))
         => (pc' = "loop" /\ CellAt(board', row, col) = Human)]_vars

\* C4, as stated: play_move either returns an error with row or column out of
\* range, or returns Ok with count_free_spots one less than before the call.
C4_FreeCountDropsByOne ==
  [][ret'.op = "play_move" =>
       \/ ~ret'.ok /\ ~InRange(ret'.row, ret'.col)
       \/ ret'.ok /\ count_free_spots(board') = count_free_spots(board) - 1]_vars

\* C4, amended: play_move returns an error exactly when row or column is out
\* of range, and then count_free_spots keeps its value; otherwise it returns
\* Ok and count_free_spots is one less when the targeted cell was empty and
\* keeps its value when the cell was owned.
C4_FreeCountByTarget ==
  [][ret'.op = "play_move" =>
       IF InRange(ret'.row, ret'.col)
         THEN /\ ret'.ok
              /\ count_free_spots(board') =
                   count_free_spots(board)
                     - (IF CellAt(board, ret'.row, ret'.col) = None THEN 1 ELSE 0)
         ELSE /\ ~ret'.ok
              /\ count_free_spots(board') = count_free_spots(board)]_vars

\* C4 witness: Computer played onto the one cell of the grid, which Human
\* owned (its bit is still in human_hash), and eight cells are free as before.
C4_Witness ==
  /\ ret.op = "play_move"
  /\ ret.ok
  /\ ret.player = Computer
  /\ CellAt(board, ret.row, ret.col) = Computer
  /\ Bit(board.human_hash, get_index(ret.row, ret.col)) = 1
  /\ count_free_spots(board) = BOARD_SIZE - 1

\* C8: play_move with row or column outside [0,3) returns an error and leaves
\* the cells and both masks as they were; with both in range it returns Ok.
C8_OutOfRangeRejected ==
  [][ret'.op = "play_move" =>
       IF InRange(ret'.row, ret'.col)
         THEN ret'.ok
         ELSE ~ret'.ok /\ board' = board]_vars

\* C8 witness: a move with row 3 onto a grid that is not empty was rejected.
C8_Witness ==
  /\ ret.op = "play_move"
  /\ ret.row = ROWS
  /\ ~ret.ok
  /\ CellsOf(board, Human) # {}
  /\ board.human_hash # 0

\* C9: an in-range play_move onto a cell that is already owned returns Ok,
\* the cell becomes owned by the player of the move and no other cell changes.
C9_OwnedCellOverwritten ==
  [][(/\ ret'.op = "play_move"
      /\ InRange(ret'.row, ret'.col)
      /\ CellAt(board, ret'.row, ret'.col) # None)
       => /\ ret'.ok
          /\ board'.v = [board.v EXCEPT ![get_index(ret'.row, ret'.col) + 1] = ret'.player]]_vars

\* C9 witness: Human played onto a cell Computer owned (its bit is still in
\* computer_hash) and owns it now.
C9_Witness ==
  /\ ret.op = "play_move"
  /\ ret.ok
  /\ ret.player = Human
  /\ CellAt(board, ret.row, ret.col) = Human
  /\ Bit(board.computer_hash, get_index(ret.row, ret.col)) = 1

\* C6: on a board with no complete line and at least one free cell, minimax
\* called with depth count_free_spots returns Some((row, col)) of an empty cell.
C6_SearchTotal ==
  (/\ ret.op = "minimax"
   /\ ~OwnsSomeLine(board, Human)
   /\ ~OwnsSomeLine(board, Computer)
   /\ CellsOf(board, None) # {})
    => /\ ret.best_move # NoMove
       /\ ret.best_move \in CellsOf(board, None)

\* C6 witness: a search for Human on a board with one free cell returned it.
C6_Witness ==
  /\ ret.op = "minimax"
  /\ ret.player = Human
  /\ ~OwnsSomeLine(board, Human)
  /\ ~OwnsSomeLine(board, Computer)
  /\ CellsOf(board, None) = {<<2, 1>>}
  /\ ret.best_move = <<2, 1>>

\* C10: where Computer owns (0,0) and (0,1), (0,2) is empty and nobody owns a
\* complete line, minimax for Computer returns move (0,2) with score +1.
C10_ForcedWinInOne ==
  (/\ ret.op = "minimax"
   /\ ret.player = Computer
   /\ CellAt(board, 0, 0) = Computer
   /\ CellAt(board, 0, 1) = Computer
   /\ CellAt(board, 0, 2) = None
   /\ ~OwnsSomeLine(board, Human)
   /\ ~OwnsSomeLine(board, Computer))
    => ret.best_move = <<0, 2>> /\ ret.score = 1

\* C10 witness: that search on the board holding only the two Computer cells.
C10_Witness ==
  /\ ret.op = "minimax"
  /\ ret.player = Computer
  /\ CellsOf(board, Computer) = {<<0, 0>>, <<0, 1>>}
  /\ CellsOf(board, Human) = {}
  /\ ret.best_move = <<0, 2>>
  /\ ret.score = 1

\* C5: the number of free cells never increases and drops by one on every
\* computer turn, there are at most 8 computer turns, and if every human turn
\* completes then play_game reaches its win or tie announcement.
C5_GameTerminates ==
  /\ [](computer_turns <= BOARD_SIZE - 1)
  /\ [][count_free_spots(board') <= count_free_spots(board)]_vars
  /\ [][computer_turns' # computer_turns
          => count_free_spots(board') = count_free_spots(board) - 1]_vars
  /\ ([](pc = "human_turn" => <>(pc # "human_turn")) => <>(pc = "done"))

\* C5 witness: a game in which Human played onto occupied cells has ended
\* after four computer turns.
C5_Witness ==
  pc = "done" /\ overwrote /\ computer_turns = 4 /\ announced # "none"

\* C7: a tie is announced only on a full board on which nobody owns a line; a
\* full board on which a player owns a line ends with that player announced;
\* while a turn handler runs nobody owns a line and the board is not full.
C7_WinnerCheckedBeforeTie ==
  /\ announced = "tie" =>
       /\ CellsOf(board, None) = {}
       /\ ~OwnsSomeLine(board, Human)
       /\ ~OwnsSomeLine(board, Computer)
  /\ (pc = "done" /\ CellsOf(board, None) = {}) =>
       \A p \in Player : OwnsSomeLine(board, p) => (announced = "wins" /\ winner = p)
  /\ pc \in {"human_turn", "computer_turn"} =>
       /\ CellsOf(board, None) # {}
       /\ ~OwnsSomeLine(board, Human)
       /\ ~OwnsSomeLine(board, Computer)

\* C7 witness: the move that filled the last cell completed a line and its
\* player was announced as the winner.
C7_Witness ==
  /\ pc = "done"
  /\ CellsOf(board, None) = {}
  /\ announced = "wins"
  /\ OwnsSomeLine(board, winner)

\* the board with the same cells and masks holding exactly the owned cells
CellsOnly(b) ==
  [v |-> b.v, computer_hash |-> HashOfCells(b.v, Computer),
   human_hash |-> HashOfCells(b.v, Human)]

\* C11: at every computer turn of play_game, computer_turn has exactly one
\* outcome, it comes from the search, and the result of the search and the
\* cells it leaves are those computed from the cell contents alone (the masks
\* play no part); so the same human moves give the same boards and moves.
C11_MoveSelectionDeterministic ==
  pc = "computer_turn" =>
    /\ Cardinality(computer_turn(board)) = 1
    /\ \A out \in computer_turn(board) :
         /\ out.branch = "minimax"
         /\ out.search = minimax(CellsOnly(board), count_free_spots(board), Computer)
         /\ \A other \in computer_turn(CellsOnly(board)) : out.board.v = other.board.v

\* C11 witness: after an earlier computer turn, computer_turn is about to
\* search a board on which a human move overwrote a cell, so that a mask holds
\* the bit of a cell its player does not own.
C11_Witness ==
  /\ pc = "computer_turn"
  /\ computer_turns >= 1
  /\ overwrote
  /\ board # CellsOnly(board)

(***************************************************************************)
(* The form of an accepted line, stated on the characters.                 *)
(***************************************************************************)
Blank == {" ", "\t", "\n", "\r"}

DecimalValueOf ==
  [c \in {"0", "1", "2", "3", "4", "5", "6", "7", "8", "9"} |->
     CHOOSE d \in 0..9 : <<"0", "1", "2", "3", "4", "5", "6", "7", "8", "9">>[d + 1] = c]

\* the line from its first to its last character that is not whitespace
Trimmed(s) ==
  LET inked == {i \in 1..Len(s) : s[i] \notin Blank}
  IN IF inked = {} THEN <<>>
     ELSE SubSeq(s, CHOOSE i \in inked : \A j \in inked : i <= j,
                    CHOOSE i \in inked : \A j \in inked : j <= i)

\* the characters after an optional leading '+'
Unsigned(t) == IF t # <<>> /\ t[1] = "+" THEN SubSeq(t, 2, Len(t)) ELSE t

\* an optional '+' and then one or more decimal digits
IsNumeral(t) ==
  /\ Unsigned(t) # <<>>
  /\ \A i \in 1..Len(Unsigned(t)) : Unsigned(t)[i] \in DOMAIN DecimalValueOf

\* the numeral is of a number no greater than usize::MAX = 4294967295
FitsUsize(t) ==
  LET ds == Unsigned(t)
      lead == {i \in 1..Len(ds) : ds[i] # "0"}
      first == IF lead = {} THEN Len(ds) + 1 ELSE CHOOSE i \in lead : \A j \in lead : i <= j
      sig == SubSeq(ds, first, Len(ds))
  IN \/ Len(sig) < 10
     \/ /\ Len(sig) = 10
        /\ ~\E i \in 1..10 :
              /\ DecimalValueOf[sig[i]] > usize_MAX_digits[i]
              /\ \A j \in 1..(i - 1) : DecimalValueOf[sig[j]] = usize_MAX_digits[j]

RECURSIVE NumeralValue(_)
NumeralValue(ds) ==
  IF ds = <<>> THEN 0
  ELSE 10 * NumeralValue(SubSeq(ds, 1, Len(ds) - 1)) + DecimalValueOf[ds[Len(ds)]]

\* the places of the commas of a string
Commas(t) == {i \in 1..Len(t) : t[i] = ","}

LeftOf(t) == SubSeq(t, 1, (CHOOSE i \in Commas(t) : TRUE) - 1)

RightOf(t) == SubSeq(t, (CHOOSE i \in Commas(t) : TRUE) + 1, Len(t))

\* the examples of the claim
ParseExamples ==
  /\ parse_move(<<"1", ",", "1">>) = [ok |-> TRUE, row |-> 1, col |-> 1]
  /\ ~parse_move(<<"1", ",", "1", ",", "1">>).ok
  /\ ~parse_move(<<"1">>).ok
  /\ ~parse_move(<<"x", ",", "1">>).ok
  /\ ~parse_move(<<"a", ",", "b">>).ok

\* C12, as stated: parse_move accepts exactly the lines that, trimmed, are
\* two non-negative integers separated by one comma, and returns them.
C12_AcceptsIntegerPairs ==
  ret.op = "parse_move" =>
    LET t == Trimmed(required_move) IN
      IF Cardinality(Commas(t)) = 1 /\ IsNumeral(LeftOf(t)) /\ IsNumeral(RightOf(t))
        THEN ret.result.ok
        ELSE ~ret.result.ok

\* C12, amended: parse_move accepts exactly the lines that, trimmed, are two
\* numerals (an optional '+', then decimal digits and nothing else) of numbers
\* no greater than usize::MAX separated by one comma, and returns the two
\* numbers as (row, col); the examples of the claim behave as it says.
C12_AcceptsUsizePairs ==
  /\ ParseExamples
  /\ ret.op = "parse_move" =>
       LET t == Trimmed(required_move) IN
         IF /\ Cardinality(Commas(t)) = 1
            /\ IsNumeral(LeftOf(t)) /\ FitsUsize(LeftOf(t))
            /\ IsNumeral(RightOf(t)) /\ FitsUsize(RightOf(t))
           THEN /\ ret.result.ok
                /\ ret.result.row = NumeralValue(Unsigned(LeftOf(t)))
                /\ ret.result.col = NumeralValue(Unsigned(RightOf(t)))
           ELSE ~ret.result.ok

\* C12 witness: the line "20,+1" with its newline was parsed as (20, 1).
C12_Witness ==
  /\ ret.op = "parse_move"
  /\ required_move = <<"2", "0", ",", "+", "1", "\n">>
  /\ ret.result.ok
  /\ ret.result.row = 20
  /\ ret.result.col = 1

\* the score of the position in which p has taken the free cell rc of b,
\* searched with one less depth for the opponent
ChildScore(b, rc, p) ==
  minimax(play_move(b, Move(rc[1], rc[2], p)).board, count_free_spots(b) - 1,
          get_opponent(p))[2]

\* the place of a cell in row-major order
RowMajor(rc) == rc[1] * COLUMNS + rc[2]

DepthOfCall == IF ret.op = "minimax" THEN count_free_spots(board) ELSE ret.depth

\* C14, as stated: a call of minimax with depth 0 or on a board with a
\* complete line returns no move and score +1 if Computer is the winner, -1 if
\* Human is, 0 otherwise; every score minimax returns is -1, 0 or +1.
C14_TerminalScores ==
  ret.op \in {"minimax", "minimax_at"} =>
    /\ ret.score \in {-1, 0, 1}
    /\ (DepthOfCall = 0 \/ OwnsSomeLine(board, Human) \/ OwnsSomeLine(board, Computer))
         => /\ ret.best_move = NoMove
            /\ ret.score = (IF OwnsSomeLine(board, Human) THEN -1
                            ELSE IF OwnsSomeLine(board, Computer) THEN 1
                            ELSE 0)

\* C14, amended: the terminal calls return as stated, and every score
\* returned by a call whose depth is at most the number of free cells of its
\* board is -1, 0 or +1.
C14_TerminalScoresWithinDepth ==
  ret.op \in {"minimax", "minimax_at"} =>
    /\ DepthOfCall <= count_free_spots(board) => ret.score \in {-1, 0, 1}
    /\ (DepthOfCall = 0 \/ OwnsSomeLine(board, Human) \/ OwnsSomeLine(board, Computer))
         => /\ ret.best_move = NoMove
            /\ ret.score = (IF OwnsSomeLine(board, Human) THEN -1
                            ELSE IF OwnsSomeLine(board, Computer) THEN 1
                            ELSE 0)

\* C14 witness: a call with depth 0 on a board with free cells on which Human
\* owns the middle column returned no move and score -1.
C14_Witness ==
  /\ ret.op = "minimax_at"
  /\ ret.depth = 0
  /\ CellsOf(board, Human) = {<<0, 1>>, <<1, 1>>, <<2, 1>>}
  /\ CellsOf(board, Computer) = {<<0, 0>>, <<2, 2>>}
  /\ ret.best_move = NoMove
  /\ ret.score = -1

\* bit idx of each mask is set exactly when its player owns cell idx
MasksAgree(b) ==
  \A idx \in 0..(BOARD_SIZE - 1) :
    /\ Bit(b.human_hash, idx) = 1 <=> b.v[idx + 1] = Human
    /\ Bit(b.computer_hash, idx) = 1 <=> b.v[idx + 1] = Computer

\* C15: after a sequence of play_move calls on a new board the two masks agree
\* with the cells: here, after one more call on a board on which they agree.
C15_MasksAgreeWithCells ==
  ret.op = "play_move" => MasksAgree(board)

\* cells of Human less cells of Computer
CellLead(b) == Cardinality(CellsOf(b, Human)) - Cardinality(CellsOf(b, Computer))

\* C16: play_game starts with Human; the handler that runs is that of the
\* current player; a turn that completes puts the current player on one cell,
\* changes no other cell and hands the turn to the opponent, and nothing else
\* changes the board or the current player; while no human move has hit an
\* occupied cell, Human owns as many cells as Computer at the start of a human
\* turn and one more at the start of a computer turn.
C16_TurnsAlternate ==
  /\ current_player = Human
  /\ [](/\ pc = "human_turn" => current_player = Human
        /\ pc = "computer_turn" => current_player = Computer
        /\ (~overwrote /\ pc = "human_turn") => CellLead(board) = 0
        /\ (~overwrote /\ pc = "computer_turn") => CellLead(board) = 1)
  /\ [][IF pc \in {"human_turn", "computer_turn"} /\ pc' = "loop"
          THEN /\ current_player' # current_player
               /\ current_player' \in Player
               /\ \E idx \in 1..BOARD_SIZE :
                    board'.v = [board.v EXCEPT ![idx] = current_player]
          ELSE /\ current_player' = current_player
               /\ board' = board]_vars

\* C16 witness: the third computer turn starts, with three cells of Human and
\* two of Computer, no human move having hit an occupied cell.
C16_Witness ==
  /\ pc = "computer_turn"
  /\ ~overwrote
  /\ computer_turns = 2
  /\ Cardinality(CellsOf(board, Human)) = 3
  /\ Cardinality(CellsOf(board, Computer)) = 2

\* C17: in every state of play_game, human moves onto occupied cells
\* included, at most one player owns a complete line.
C17_AtMostOneWinner ==
  ~(OwnsSomeLine(board, Human) /\ OwnsSomeLine(board, Computer))

\* C17 witness: a game in which a human move hit an occupied cell has ended
\* with Human announced, Human owning a complete line and Computer none.
C17_Witness ==
  /\ pc = "done"
  /\ overwrote
  /\ announced = "wins"
  /\ winner = Human
  /\ OwnsSomeLine(board, Human)
  /\ ~OwnsSomeLine(board, Computer)

\* C18: whenever play_game has called computer_turn the board has no winner,
\* is not full and is not empty, and the branch computer_turn takes is the
\* search, never "game is over" and never the random move.
C18_ComputerTurnSearches ==
  pc = "computer_turn" =>
    /\ get_winner(board) = None
    /\ ~is_game_over(board)
    /\ ~is_empty(board)
    /\ CellsOf(board, None) \notin {{}, (0..(ROWS - 1)) \X (0..(COLUMNS - 1))}
    /\ \A out \in computer_turn(board) : out.branch = "minimax"

\* C18 witness: computer_turn is called for the fourth time, on a board of
\* two free cells.
C18_Witness ==
  /\ pc = "computer_turn"
  /\ computer_turns = 3
  /\ Cardinality(CellsOf(board, None)) = 2

====
